---------------------------- MODULE Spec2Model ----------------------------
(***************************************************************************)
(* Payment reconciliation of the direct-booking site builder: the REST     *)
(* endpoints that create leads, registration options and users, and the    *)
(* Stripe webhook (StripeWebhookView) that marks options paid, gets or     *)
(* creates the user of a lead and sends the payment confirmation email.    *)
(* The database tables are sequences indexed by primary key; every action  *)
(* is one HTTP request handled to completion (ATOMIC_REQUESTS is off, each *)
(* ORM statement commits as it runs, and the handler has no rollback).     *)
(***************************************************************************)
EXTENDS Integers, Sequences, FiniteSets, TLC

(* ------------------------------ bounds -------------------------------- *)
\* rows the requests may insert into the lead, option and payload tables
MaxRows == 4

(* ----------------------------- constants ------------------------------ *)
\* Python None in an integer-valued column (foreign key, timestamp)
None == 0
\* Python None in a text column
NoneStr == "None"

CHECKOUT_COMPLETED == "checkout.session.completed"
CHECKOUT_EXPIRED == "checkout.session.expired"
PAYMENT_INTENT_CREATED == "payment_intent.created"
HTTP_200_OK == 200
HTTP_201_CREATED == 201
HTTP_400_BAD_REQUEST == 400
MAX_HOURS_VALID == 24

UNUSABLE_PASSWORD == "!unusable"
USABLE_PASSWORD == "pbkdf2$secret"

(* --------------------------- request inputs --------------------------- *)
RegisterEmails == {"a@x.com", "a@X.com"}
\* bodies of POST /lead-registration/: first_name may be left out
LeadRequests ==
    {[email |-> "a@x.com", first_name |-> "John", last_name |-> "Doe",
      phone_number |-> "+356", confirm_email |-> ""],
     [email |-> "A@x.com", first_name |-> NoneStr, last_name |-> "Doe",
      phone_number |-> "+356", confirm_email |-> ""],
     [email |-> "b@x.com", first_name |-> "John", last_name |-> "Doe",
      phone_number |-> "+356", confirm_email |-> ""],
     [email |-> "b@x.com", first_name |-> "John", last_name |-> "Doe",
      phone_number |-> "+356", confirm_email |-> "bot"],
     [email |-> "t@mailinator.com", first_name |-> "John", last_name |-> "Doe",
      phone_number |-> "+356", confirm_email |-> ""]}
Packages == {1}
OptionPackages == Packages
SigHeaders == {"absent", "invalid", "valid"}

\* data.object.client_reference_id of the JSON body: the key is absent, it
\* is JSON null, or it is the UUID of the lead with that primary key (0 is a
\* UUID no lead has).
RefAbsent == [kind |-> "absent", id |-> 0]
RefNull == [kind |-> "null", id |-> 0]
RefUuid(i) == [kind |-> "uuid", id |-> i]

\* request.body: bytes that are not JSON, or a Stripe event object.  A
\* payment intent carries no client_reference_id; a checkout session made
\* without one carries it as null.
NotJson == [json |-> FALSE, type |-> "", ref |-> RefAbsent]
Event(t, r) == [json |-> TRUE, type |-> t, ref |-> r]
\* the bodies that can arrive while n leads exist
Bodies(n) ==
          {NotJson}
          \cup {Event(CHECKOUT_COMPLETED, RefUuid(i)) : i \in 0..n}
          \cup {Event(PAYMENT_INTENT_CREATED, RefAbsent),
                Event(CHECKOUT_EXPIRED, RefNull)}

VARIABLES
    leads,      \* LeadRegistration rows, index = primary key
    options,    \* RegistrationOptions rows, index = primary key
    users,      \* BNBUser rows, index = primary key
    tokens,     \* UserToken rows: set of [user, created_at]
    webhooks,   \* StripeWebhookPayload rows in creation order
    outbox,     \* e-mails handed to the mail backend, in order
    clock,      \* the wall clock read by datetime.now()
    resp        \* the last request and the response it got

\* a Promotion under evaluation (PromoSpec)
VARIABLES
    promo,      \* the Promotion row with the amount of its package
    today,      \* the date timezone.now().date() / date.today() returns
    promo_ret   \* the last call made on the promotion and what it gave

\* the REST API of leads and registration options (ApiSpec)
VARIABLES
    req,        \* the last API request: action, object id, submitted data
    checkout    \* the Stripe checkout session the last request created

\* one Property with its related rows (PropertySpec), the Website table
\* (WebsiteSpec), and the login endpoints (AuthSpec)
VARIABLES
    property_db,  \* committed data of the property and its eight relations
    prop_req,     \* the last POST to PropertyUpdateView and its outcome
    websites,     \* Website rows, index = primary key
    web_req,      \* the last WebsiteViewSet request and its response
    auth          \* the last login / verification request and its response

\* the booking wizard (WizardSpec) and two webhook requests handled by two
\* workers at once (RaceSpec)
VARIABLES
    session,      \* request.session of the one browser using the wizard
    wiz,          \* the last wizard request and what it did
    inflight      \* per worker: where its webhook request stands, its locals

payment_vars == <<leads, options, users, tokens, webhooks, outbox, clock, resp>>
promo_vars == <<promo, today, promo_ret>>
api_vars == <<req, checkout>>
prop_vars == <<property_db, prop_req>>
web_vars == <<websites, web_req>>
auth_vars == <<auth>>
wizard_vars == <<session, wiz>>
race_vars == <<inflight>>
vars == <<payment_vars, promo_vars, api_vars, prop_vars, web_vars, auth_vars,
          wizard_vars, race_vars>>

\* what each specification leaves alone
outside_payment == <<promo_vars, api_vars, prop_vars, web_vars, auth_vars,
                     wizard_vars, race_vars>>
outside_promo == <<payment_vars, api_vars, prop_vars, web_vars, auth_vars,
                   wizard_vars, race_vars>>
outside_api == <<webhooks, clock, promo_vars, prop_vars, web_vars, auth_vars,
                 wizard_vars, race_vars>>
outside_prop == <<payment_vars, promo_vars, api_vars, web_vars, auth_vars,
                  wizard_vars, race_vars>>
outside_web == <<payment_vars, promo_vars, api_vars, prop_vars, auth_vars,
                 wizard_vars, race_vars>>
outside_auth == <<leads, options, webhooks, clock, promo_vars, api_vars,
                  prop_vars, web_vars, wizard_vars, race_vars>>
outside_wizard == <<users, tokens, webhooks, outbox, clock, resp, promo_vars,
                    req, prop_vars, web_vars, auth_vars, race_vars>>
outside_race == <<clock, promo_vars, api_vars, prop_vars, web_vars, auth_vars,
                  wizard_vars>>

\* op: the endpoint; sig, json: the Stripe-Signature header and whether the
\* body was JSON (webhook requests); event: what construct_event returned;
\* status, reason: the HTTP response; email: what the handler logged about
\* the confirmation e-mail of this request
NoResp == [op |-> "none", sig |-> "absent", json |-> FALSE, event |-> NotJson,
           status |-> 0, reason |-> "", email |-> "not_attempted"]
Response(op, status) == [NoResp EXCEPT !.op = op, !.status = status]
WebhookResponse(sig, body, event, status, reason, email) ==
    [op |-> "webhook", sig |-> sig, json |-> body.json, event |-> event,
     status |-> status, reason |-> reason, email |-> email]

\* no Promotion method is being evaluated
NoPromotion == [discount_percentage |-> 0, units_available |-> 0,
                start_date |-> 1, end_date |-> 1, amount |-> 0]
NoCall == [op |-> "none", check_available |-> FALSE, raised |-> "",
           value |-> 0]
PromoIdle == promo = NoPromotion /\ today = 1 /\ promo_ret = NoCall

\* the empty database
EmptyTables ==
    /\ leads = <<>>
    /\ options = <<>>
    /\ users = <<>>
    /\ tokens = {}
    /\ webhooks = <<>>
    /\ outbox = <<>>
    /\ clock = 1
    /\ resp = NoResp

\* no API request made, no checkout session created
NoReq == [op |-> "none", id |-> 0, keys |-> {}, email |-> "",
          completed_at |-> 0, package |-> 0, promotion |-> 0]
NoSession == [client_reference_id |-> 0, line_items |-> <<>>]
ApiIdle == req = NoReq /\ checkout = NoSession

\* the forms PropertyUpdateView handles, in the order form_valid saves them
SaveOrder == <<"property", "coordinates", "rating", "house_rules", "host",
               "sub_description", "images", "locations", "highlights">>
PropertyForms == {SaveOrder[k] : k \in 1..Len(SaveOrder)}
NoPropReq == [op |-> "none", invalid |-> {}, raising |-> "none", data |-> 0,
              outcome |-> "none"]
PropIdle ==
    /\ property_db = [f \in PropertyForms |-> 0]
    /\ prop_req = NoPropReq

\* three websites of two owners
WebsiteRows == <<[owner |-> 1, domain_name |-> "a.com"],
                 [owner |-> 2, domain_name |-> "a.com"],
                 [owner |-> 2, domain_name |-> "a.com"]>>
NoWebReq == [op |-> "none", user |-> 0, id |-> 0, status |-> 0, listed |-> {}]
WebIdle == websites = WebsiteRows /\ web_req = NoWebReq

NoAuth == [op |-> "none", email |-> "", password_ok |-> FALSE, status |-> 0,
           body |-> "", jwt |-> FALSE]
AuthIdle == auth = NoAuth

\* a key that is not in the session (session.get falls back to a default)
NoStep == -1
TOTAL_STEPS == 7
Steps == 1..TOTAL_STEPS
\* the session of a browser that has not opened the wizard
NoWizardSession ==
    [wizard_step |-> NoStep, wizard_data |-> [k \in Steps |-> None],
     lead_registration_id |-> None]
NoWizardReq == [op |-> "none", step |-> 0, valid |-> FALSE, data |-> 0,
                outcome |-> "none"]
WizardIdle == session = NoWizardSession /\ wiz = NoWizardReq

\* no webhook request is in flight
RaceIdle == inflight = <<>>

Idle ==
    /\ PromoIdle /\ ApiIdle /\ PropIdle /\ WebIdle /\ AuthIdle
    /\ WizardIdle /\ RaceIdle

Init == EmptyTables /\ Idle

(* ----------------------------- ORM helpers ---------------------------- *)
Rows == Len(leads) + Len(options) + Len(webhooks)

\* BNBUser.objects.filter(email=value): primary keys of the matching rows
UsersByEmail(U, email) == {i \in 1..Len(U) : U[i].email = email}

\* a lookup that falls back to the oldest lead when the id matches none
LeadById_or_first(L, ref) ==
    IF ref.kind = "uuid" /\ ref.id \in 1..Len(L) THEN ref.id
    ELSE IF Len(L) > 0 THEN 1 ELSE None

\* LeadRegistration.objects.filter(id=lead_id).first(): the pk, or None
LeadById(L, ref) ==
    IF ref.kind = "uuid" /\ ref.id \in 1..Len(L) THEN ref.id ELSE None

\* str.strip().lower() on the e-mail spellings clients submit
Lower(e) == IF e = "A@x.com" THEN "a@x.com" ELSE e

\* BaseUserManager.normalize_email lower-cases the domain part only
normalize_email(e) == IF e = "a@X.com" THEN "a@x.com" ELSE e

is_email_blacklisted(e) == e = "t@mailinator.com"

(* ------------------------- LeadRegistration --------------------------- *)
NewUser(lead) ==
    [email |-> lead.email, first_name |-> lead.first_name,
     last_name |-> lead.last_name, phone_number |-> lead.phone_number,
     is_active |-> TRUE, is_email_confirmed |-> FALSE, password |-> ""]

\* a create that does not look the e-mail up first
get_or_create_always_insert(U, lead) ==
    IF lead.first_name = NoneStr \/ lead.last_name = NoneStr
    THEN [raised |-> TRUE, users |-> U, user |-> None, created |-> FALSE]
    ELSE [raised |-> FALSE, users |-> Append(U, NewUser(lead)),
          user |-> Len(U) + 1, created |-> TRUE]

\* QuerySet.get_or_create(email=..., defaults=...) on BNBUser.  The insert
\* violates NOT NULL on first_name / last_name when the lead has none.
get_or_create(U, lead) ==
    LET found == UsersByEmail(U, lead.email) IN
    IF Cardinality(found) = 1
    THEN [raised |-> FALSE, users |-> U, user |-> CHOOSE i \in found : TRUE,
          created |-> FALSE]
    ELSE IF Cardinality(found) > 1
    THEN [raised |-> TRUE, users |-> U, user |-> None, created |-> FALSE]
    ELSE IF lead.first_name = NoneStr \/ lead.last_name = NoneStr
    THEN [raised |-> TRUE, users |-> U, user |-> None, created |-> FALSE]
    ELSE [raised |-> FALSE, users |-> Append(U, NewUser(lead)),
          user |-> Len(U) + 1, created |-> TRUE]

create_user_from_lead(L, U, lid) ==
    LET g == get_or_create(U, L[lid]) IN
    IF g.raised
    THEN [raised |-> TRUE, leads |-> L, users |-> U, user |-> None,
          created |-> FALSE]
    ELSE IF g.created
    THEN [raised |-> FALSE,
          leads |-> [L EXCEPT ![lid].user = g.user],
          users |-> [g.users EXCEPT ![g.user].password = UNUSABLE_PASSWORD],
          user |-> g.user, created |-> TRUE]
    ELSE [raised |-> FALSE, leads |-> L, users |-> U, user |-> g.user,
          created |-> FALSE]

\* BNBUser.refresh_user_token: the user's old tokens are replaced by a
\* fresh one
refresh_user_token(T, uid, now) ==
    {t \in T : t.user # uid} \cup {[user |-> uid, created_at |-> now]}

\* BNBUser.create_user_token
create_user_token(T, uid, now) == T \cup {[user |-> uid, created_at |-> now]}

\* UserToken.is_expired
is_expired(t, now) == (now - t.created_at) > MAX_HOURS_VALID

OptionsOf(O, lid) == {i \in 1..Len(O) : O[i].lead_registration = lid}

\* a query without the DISTINCT ON: every option of the lead
all_registration_options(O, lid) == OptionsOf(O, lid)

\* the rows get_latest_registration_options yields: per package (None is a
\* package value of its own) the option created last
get_latest_registration_options(O, lid) ==
    {i \in OptionsOf(O, lid) :
        \A j \in OptionsOf(O, lid) : O[j].package = O[i].package => j <= i}

PaymentMail(to) == [to |-> to, subject |-> "Payment Confirmed"]
ActivationMail(to) == [to |-> to, subject |-> "Activate Your Account"]

\* Returns the tables as the call leaves them and the exception it raised
\* ("" when it returned): self.user is dereferenced though it may be None,
\* option.package likewise, and the mail backend may refuse the message.
send_payment_confirmation_email(L, U, T, O, M, lid, now, mail_ok) ==
    LET c == IF L[lid].user = None
             THEN create_user_from_lead(L, U, lid)
             ELSE [raised |-> FALSE, leads |-> L, users |-> U,
                   user |-> L[lid].user, created |-> FALSE]
        uid == c.leads[lid].user
        T2 == refresh_user_token(T, uid, now)
        out(r, t, m) == [raised |-> r, leads |-> c.leads, users |-> c.users,
                         tokens |-> t, outbox |-> m]
    IN  IF c.raised THEN out("IntegrityError", T, M)
        ELSE IF uid = None THEN out("AttributeError", T, M)
        ELSE IF \E i \in get_latest_registration_options(O, lid) :
                    O[i].package = None
        THEN out("AttributeError", T2, M)
        ELSE IF ~mail_ok THEN out("SMTPException", T2, M)
        ELSE out("", T2, Append(M, PaymentMail(c.users[uid].email)))

(* -------------------------- StripeWebhookView ------------------------- *)
\* validate_webhook_request without the signature verification
validate_webhook_request_unverified(sig, body) ==
    IF sig = "absent"
    THEN [ok |-> FALSE, error |-> "No Stripe signature provided"]
    ELSE IF ~body.json
    THEN [ok |-> FALSE, error |-> "Invalid payload."]
    ELSE [ok |-> TRUE, error |-> ""]

\* validate_webhook_request: the header check, then construct_event, which
\* verifies the signature before it parses the payload
validate_webhook_request(sig, body) ==
    IF sig = "absent"
    THEN [ok |-> FALSE, error |-> "No Stripe signature provided"]
    ELSE IF sig # "valid"
    THEN [ok |-> FALSE, error |-> "Invalid signature."]
    ELSE IF ~body.json
    THEN [ok |-> FALSE, error |-> "Invalid payload."]
    ELSE [ok |-> TRUE, error |-> ""]

\* StripeEvent.model_validate_json: client_reference_id is a UUID that
\* defaults to None when the key is absent; JSON null is not a UUID
model_validate_json(body) == body.json /\ body.ref.kind # "null"

\* StripeEvent.get_lead_registration_id
get_lead_registration_id(body) == body.ref

\* an update of the latest option per package only
update_paid_at_latest_only(O, lid, now) ==
    [i \in 1..Len(O) |->
        IF i \in get_latest_registration_options(O, lid)
        THEN [O[i] EXCEPT !.paid_at = now]
        ELSE O[i]]

\* QuerySet.update(paid_at=now) on the lead's registration_options
update_paid_at(O, lid, now) ==
    [i \in 1..Len(O) |->
        IF O[i].lead_registration = lid THEN [O[i] EXCEPT !.paid_at = now]
        ELSE O[i]]

HandlerResult(updated, reason, L, O, U, T, M, email) ==
    [updated |-> updated, reason |-> reason, leads |-> L, options |-> O,
     users |-> U, tokens |-> T, outbox |-> M, email |-> email]

\* the handler with the e-mail call outside any try block
handle_checkout_email_fatal(body, L, O, U, T, M, now, mail_ok) ==
    LET lid == LeadById(L, get_lead_registration_id(body)) IN
    IF lid = None
    THEN HandlerResult(FALSE, "Lead registration not found", L, O, U, T, M,
                       "not_attempted")
    ELSE
      LET O2 == update_paid_at(O, lid, now)
          c == create_user_from_lead(L, U, lid)
      IN  IF c.raised
          THEN HandlerResult(FALSE, "Error handling checkout session completed",
                             L, O2, U, T, M, "not_attempted")
          ELSE
            LET e == send_payment_confirmation_email(
                         c.leads, c.users, T, O2, M, lid, now, mail_ok)
            IN  HandlerResult(e.raised = "", "User created.", e.leads, O2,
                              e.users, e.tokens, e.outbox,
                              IF e.raised = "" THEN "sent" ELSE e.raised)

\* the handler with the paid_at update undone when user creation raises
handle_checkout_compensating(body, L, O, U, T, M, now, mail_ok) ==
    LET lid == LeadById(L, get_lead_registration_id(body)) IN
    IF lid = None
    THEN HandlerResult(FALSE, "Lead registration not found", L, O, U, T, M,
                       "not_attempted")
    ELSE
      LET O2 == update_paid_at(O, lid, now)
          c == create_user_from_lead(L, U, lid)
      IN  IF c.raised
          THEN HandlerResult(FALSE, "Error handling checkout session completed",
                             L, O, U, T, M, "not_attempted")
          ELSE
            LET e == send_payment_confirmation_email(
                         c.leads, c.users, T, O2, M, lid, now, mail_ok)
            IN  HandlerResult(TRUE, "User created.", e.leads, O2, e.users,
                              e.tokens, e.outbox,
                              IF e.raised = "" THEN "sent" ELSE e.raised)

handle_checkout_session_completed(body, L, O, U, T, M, now, mail_ok) ==
    LET lid == LeadById(L, get_lead_registration_id(body)) IN
    IF lid = None
    THEN HandlerResult(FALSE, "Lead registration not found", L, O, U, T, M,
                       "not_attempted")
    ELSE
      LET O2 == update_paid_at(O, lid, now)
          c == create_user_from_lead(L, U, lid)
      IN  IF c.raised
          THEN HandlerResult(FALSE, "Error handling checkout session completed",
                             L, O2, U, T, M, "not_attempted")
          ELSE
            LET e == send_payment_confirmation_email(
                         c.leads, c.users, T, O2, M, lid, now, mail_ok)
            IN  HandlerResult(TRUE, "User created.", e.leads, O2, e.users,
                              e.tokens, e.outbox,
                              IF e.raised = "" THEN "sent" ELSE e.raised)

default_handler(body, L, O, U, T, M) ==
    HandlerResult(TRUE, "Unprocessed Stripe webhook event", L, O, U, T, M,
                  "not_attempted")

\* a dispatch with no default handler: every event goes to the checkout one
event_handler_no_default(body, L, O, U, T, M, now, mail_ok) ==
    handle_checkout_session_completed(body, L, O, U, T, M, now, mail_ok)

\* get_event_handler_map followed by the call of the handler it returns
event_handler(body, L, O, U, T, M, now, mail_ok) ==
    IF body.type = CHECKOUT_COMPLETED
    THEN handle_checkout_session_completed(body, L, O, U, T, M, now, mail_ok)
    ELSE default_handler(body, L, O, U, T, M)

\* the StripeWebhookPayload row as post() first inserts it
created_record(body) ==
    [payload |-> body, lead_registration |-> None, completed_at |-> None,
     processed_successfully |-> FALSE]

\* a save that stamps completed_at on success only
saved_record_stamp_on_success(rec, lead, now, updated) ==
    [rec EXCEPT !.lead_registration = lead,
                !.completed_at = IF updated THEN now ELSE None,
                !.processed_successfully = updated]

\* the row as post() saves it once the handler has returned
saved_record(rec, lead, now, updated) ==
    [rec EXCEPT !.lead_registration = lead,
                !.completed_at = now,
                !.processed_successfully = updated]

\* StripeWebhookView.post.  mail_ok: whether the mail backend accepts a
\* message during this request (it is not consulted on a rejected one).
post(sig, body, mail_ok) ==
    LET v == validate_webhook_request(sig, body) IN
    IF ~v.ok
    THEN /\ mail_ok
         /\ resp' = WebhookResponse(sig, body, NotJson, HTTP_400_BAD_REQUEST,
                                    v.error, "not_attempted")
         /\ UNCHANGED <<leads, options, users, tokens, webhooks, outbox, clock>>
    ELSE
      /\ Rows < MaxRows
      /\ clock' = clock + 1
      /\ LET created == created_record(body) IN
         IF ~model_validate_json(body)
         THEN /\ webhooks' = Append(webhooks, created)
              /\ resp' = WebhookResponse(sig, body, body,
                                         HTTP_400_BAD_REQUEST,
                                         "validation error", "not_attempted")
              /\ UNCHANGED <<leads, options, users, tokens, outbox>>
         ELSE
           LET h == event_handler(body, leads, options, users, tokens,
                                  outbox, clock, mail_ok)
           IN  /\ webhooks' = Append(webhooks,
                     saved_record(created,
                         LeadById(leads, get_lead_registration_id(body)),
                         clock, h.updated))
               /\ leads' = h.leads
               /\ options' = h.options
               /\ users' = h.users
               /\ tokens' = h.tokens
               /\ outbox' = h.outbox
               /\ resp' = WebhookResponse(sig, body, body,
                                          IF h.updated THEN HTTP_200_OK
                                          ELSE HTTP_400_BAD_REQUEST,
                                          h.reason, h.email)

StripeWebhook ==
    \E sig \in SigHeaders, body \in Bodies(Len(leads)), mail_ok \in BOOLEAN :
        post(sig, body, mail_ok) /\ UNCHANGED outside_payment

(* ----------------------- the other REST endpoints --------------------- *)
\* LeadRegistrationSerializer.validate_email; stored is the e-mail of
\* self.instance, NoneStr on a create
validate_email_of(stored, U, value) ==
    LET v == Lower(value) IN
    IF stored # NoneStr /\ stored = v THEN [ok |-> TRUE, value |-> v]
    ELSE IF is_email_blacklisted(v) THEN [ok |-> FALSE, value |-> v]
    ELSE IF UsersByEmail(U, v) # {} THEN [ok |-> FALSE, value |-> v]
    ELSE [ok |-> TRUE, value |-> v]

\* LeadRegistrationSerializer.validate_email on a create (no instance)
validate_email(U, value) == validate_email_of(NoneStr, U, value)

\* LeadRegistrationViewSet.create.  A request the serializer rejects (400)
\* writes nothing, so the action is enabled for the accepted ones only.
CreateLead ==
    \E data \in LeadRequests :
        LET v == validate_email(users, data.email) IN
        /\ v.ok
        /\ data.confirm_email = ""
        /\ Rows < MaxRows
        /\ leads' = Append(leads, [email |-> v.value,
                                   first_name |-> data.first_name,
                                   last_name |-> data.last_name,
                                   phone_number |-> data.phone_number,
                                   user |-> None,
                                   completed_at |-> None])
        /\ resp' = Response("create_lead", HTTP_201_CREATED)
        /\ UNCHANGED <<options, users, tokens, webhooks, outbox, clock>>
        /\ UNCHANGED outside_payment

\* RegistrationOptionsViewSet.create: lead_registration must name a lead,
\* package may be left out; paid_at is not a writable field
CreateOption ==
    \E ref \in 0..Len(leads), package \in OptionPackages :
        /\ ref \in 1..Len(leads)
        /\ Rows < MaxRows
        /\ options' = Append(options, [lead_registration |-> ref,
                                       package |-> package,
                                       promotion |-> None,
                                       paid_at |-> None])
        /\ resp' = Response("create_option", HTTP_201_CREATED)
        /\ UNCHANGED <<leads, users, tokens, webhooks, outbox, clock>>
        /\ UNCHANGED outside_payment

\* RegisterAPIView.create -> UserManager.create_user: the e-mail is unique,
\* the user starts inactive and unconfirmed and is sent an activation mail
create_user(email) ==
    /\ UsersByEmail(users, normalize_email(email)) = {}
    /\ users' = Append(users, [email |-> normalize_email(email),
                               first_name |-> "Jane",
                               last_name |-> "Smith",
                               phone_number |-> NoneStr,
                               is_active |-> FALSE,
                               is_email_confirmed |-> FALSE,
                               password |-> USABLE_PASSWORD])
    /\ tokens' = create_user_token(tokens, Len(users) + 1, clock)
    /\ outbox' = Append(outbox, ActivationMail(normalize_email(email)))
    /\ resp' = Response("register", HTTP_201_CREATED)

RegisterUser ==
    \E email \in RegisterEmails :
        /\ create_user(email)
        /\ UNCHANGED <<leads, options, webhooks, clock>>
        /\ UNCHANGED outside_payment

Next == StripeWebhook \/ CreateLead \/ CreateOption \/ RegisterUser

Spec == Init /\ [][Next]_vars

TypeOK ==
    /\ Rows <= MaxRows
    /\ \A i \in 1..Len(options) : options[i].lead_registration \in 1..Len(leads)

(* ------------------------------ Promotion ----------------------------- *)
\* dates are day numbers 1..MaxDay
MaxDay == 3
Days == 1..MaxDay

\* units_available is a nullable PositiveIntegerField: NULL, or 0, 1, ...
NullUnits == -1
UnitValues == {NullUnits, 0, 1}
DiscountPercentages == {0, 1, 20, 50, 99, 100}
\* Package.amount, a Decimal with two places, counted in cents
Amounts == {0, 1, 1999, 10000}

PromotionRows ==
    [discount_percentage : DiscountPercentages, units_available : UnitValues,
     start_date : Days, end_date : Days, amount : Amounts]

\* Python truth value of units_available: None and 0 are falsy
Truthy(units) == units # NullUnits /\ units # 0

\* Promotion.is_promotion_available.  `not units and units < 0` compares
\* None with 0 when units is None, which raises TypeError.
is_promotion_available(p, day) ==
    IF ~Truthy(p.units_available) /\ p.units_available = NullUnits
    THEN [raised |-> "TypeError", value |-> FALSE]
    ELSE IF ~Truthy(p.units_available) /\ p.units_available < 0
    THEN [raised |-> "", value |-> FALSE]
    ELSE IF day < p.start_date THEN [raised |-> "", value |-> FALSE]
    ELSE IF day > p.end_date THEN [raised |-> "", value |-> FALSE]
    ELSE [raised |-> "", value |-> TRUE]

\* Decimal amounts are counted in hundredths of a cent, so that
\* amount * (100 - discount_percentage) / 100 stays exact
FullAmount(p) == p.amount * 100
DiscountedAmount(p) == p.amount * (100 - p.discount_percentage)

\* Promotion.get_discounted_amount: is_promotion_available() is evaluated
\* before check_available is looked at
get_discounted_amount(p, day, check_available) ==
    LET a == is_promotion_available(p, day) IN
    IF a.raised # "" THEN [raised |-> a.raised, value |-> 0]
    ELSE IF ~a.value /\ check_available
    THEN [raised |-> "", value |-> FullAmount(p)]
    ELSE [raised |-> "", value |-> DiscountedAmount(p)]

\* PackageSerializer.get_promotions: whether the promotion is listed among
\* the active promotions of its package
get_promotions(p, day) ==
    /\ p.start_date <= day
    /\ p.end_date >= day
    /\ (p.units_available = NullUnits \/ p.units_available > 0)

PromoCall(op, check, r) ==
    [op |-> op, check_available |-> check, raised |-> r.raised,
     value |-> r.value]

\* one Promotion row and one date, no call made yet
PromoInit ==
    /\ promo \in PromotionRows
    /\ today \in Days
    /\ promo_ret = NoCall
    /\ EmptyTables
    /\ ApiIdle /\ PropIdle /\ WebIdle /\ AuthIdle /\ WizardIdle /\ RaceIdle

IsPromotionAvailable ==
    /\ promo_ret' = PromoCall("is_promotion_available", FALSE,
           LET a == is_promotion_available(promo, today)
           IN  [raised |-> a.raised, value |-> IF a.value THEN 1 ELSE 0])
    /\ UNCHANGED <<promo, today>>
    /\ UNCHANGED outside_promo

GetDiscountedAmount ==
    \E check_available \in BOOLEAN :
        /\ promo_ret' = PromoCall("get_discounted_amount", check_available,
               get_discounted_amount(promo, today, check_available))
        /\ UNCHANGED <<promo, today>>
        /\ UNCHANGED outside_promo

GetPromotions ==
    /\ promo_ret' = PromoCall("get_promotions", FALSE,
           [raised |-> "",
            value |-> IF get_promotions(promo, today) THEN 1 ELSE 0])
    /\ UNCHANGED <<promo, today>>
    /\ UNCHANGED outside_promo

PromoNext == IsPromotionAvailable \/ GetDiscountedAmount \/ GetPromotions

PromoSpec == PromoInit /\ [][PromoNext]_vars

(* ------------------- the lead and option REST API --------------------- *)
HTTP_403_FORBIDDEN == 403
HTTP_500_INTERNAL_SERVER_ERROR == 500

\* the Package table: primary keys and Package.amount in cents
ApiPackages == {1, 2}
package_amount(pk) == IF pk = 1 THEN 1999 ELSE 10000

\* the Promotion table: one running promotion on package 1
PromotionTable ==
    <<[package |-> 1, discount_percentage |-> 20, units_available |-> 5,
       start_date |-> 1, end_date |-> MaxDay, amount |-> package_amount(1)]>>

\* rows the API requests may insert into the lead and option tables
MaxApiRows == 3

ApiRegisterEmails == {"a@x.com", "A@x.com"}
ApiLeadEmails == {"a@x.com", "A@x.com", "t@mailinator.com"}
ApiPatchEmails == {"a@x.com", "t@mailinator.com"}
\* package and promotion of the bodies of POST /registration-options/
OptionRequests ==
    {[package |-> 1, promotion |-> None], [package |-> 1, promotion |-> 1],
     [package |-> 2, promotion |-> None],
     [package |-> None, promotion |-> None]}

Request(op, id, keys, email, completed_at, package, promotion) ==
    [op |-> op, id |-> id, keys |-> keys, email |-> email,
     completed_at |-> completed_at, package |-> package,
     promotion |-> promotion]

\* Promotion.get_promotional_name: the package name, with the discount
\* appended unless the promotion is checked and found unavailable
get_promotional_name(p, day, check_available) ==
    LET a == is_promotion_available(p, day) IN
    IF a.raised # "" THEN [raised |-> a.raised, value |-> <<>>]
    ELSE IF ~a.value /\ check_available
    THEN [raised |-> "", value |-> <<p.package>>]
    ELSE [raised |-> "", value |-> <<p.package, p.discount_percentage>>]

\* the position of a package in ORDER BY package: NULL sorts last
NullsLast(pk) == IF pk = None THEN Cardinality(ApiPackages) + 1 ELSE pk

\* the ids in S as order_by("package", "-created_at") yields them
RECURSIVE order_by_package(_, _)
order_by_package(O, S) ==
    IF S = {} THEN <<>>
    ELSE LET first == CHOOSE i \in S : \A j \in S :
                         \/ NullsLast(O[j].package) > NullsLast(O[i].package)
                         \/ /\ O[j].package = O[i].package
                            /\ j <= i
         IN  <<first>> \o order_by_package(O, S \ {first})

\* the line item create_checkout_session appends for one option
line_item(opt, day) ==
    IF opt.package = None
    THEN [raised |-> "AttributeError", item |-> <<>>]
    ELSE IF opt.promotion = None
    THEN [raised |-> "",
          item |-> [name |-> <<opt.package>>,
                    unit_amount |-> package_amount(opt.package),
                    quantity |-> 1]]
    ELSE LET promotion == PromotionTable[opt.promotion]
             amount == get_discounted_amount(promotion, day, TRUE)
             name == get_promotional_name(promotion, day, TRUE)
         IN  IF amount.raised # ""
             THEN [raised |-> amount.raised, item |-> <<>>]
             ELSE [raised |-> "",
                   item |-> [name |-> name.value,
                             unit_amount |-> amount.value \div 100,
                             quantity |-> 1]]

RECURSIVE line_items(_, _, _)
line_items(O, ids, day) ==
    IF ids = <<>> THEN [raised |-> "", items |-> <<>>]
    ELSE LET one == line_item(O[Head(ids)], day)
             rest == line_items(O, Tail(ids), day)
         IN  IF one.raised # "" THEN [raised |-> one.raised, items |-> <<>>]
             ELSE IF rest.raised # "" THEN rest
             ELSE [raised |-> "", items |-> <<one.item>> \o rest.items]

\* LeadRegistration.create_checkout_session; stripe_ok: whether Stripe
\* accepts the Session.create call
create_checkout_session(O, lid, day, stripe_ok) ==
    LET latest_options ==
            order_by_package(O, get_latest_registration_options(O, lid))
        built == line_items(O, latest_options, day)
    IN  IF built.raised # "" THEN [raised |-> built.raised, session |-> NoSession]
        ELSE IF ~stripe_ok THEN [raised |-> "StripeError", session |-> NoSession]
        ELSE [raised |-> "",
              session |-> [client_reference_id |-> lid,
                           line_items |-> built.items]]

\* a permission class that lets every request through
has_object_permission_always(L, opt) == TRUE

\* IsLeadRegistrationNotCompleted.has_object_permission
has_object_permission(L, opt) == L[opt.lead_registration].completed_at = None

ApiInit == EmptyTables /\ Idle

\* RegisterAPIView.create, e-mails in any spelling
ApiRegister ==
    \E email \in ApiRegisterEmails :
        /\ create_user(email)
        /\ req' = Request("register", 0, {"email"}, email, None, None, None)
        /\ checkout' = NoSession
        /\ UNCHANGED <<leads, options>>
        /\ UNCHANGED outside_api

\* LeadRegistrationViewSet.create: 400 from the serializer, or the insert
PostLead ==
    \E email \in ApiLeadEmails :
        LET v == validate_email(users, email) IN
        /\ req' = Request("create_lead", 0, {"email"}, email, None, None, None)
        /\ IF v.ok
           THEN /\ Rows < MaxApiRows
                /\ leads' = Append(leads, [email |-> v.value,
                                           first_name |-> "John",
                                           last_name |-> "Doe",
                                           phone_number |-> "+356",
                                           user |-> None,
                                           completed_at |-> None])
                /\ resp' = Response("create_lead", HTTP_201_CREATED)
           ELSE /\ leads' = leads
                /\ resp' = Response("create_lead", HTTP_400_BAD_REQUEST)
        /\ checkout' = NoSession
        /\ UNCHANGED <<options, users, tokens, outbox>>
        /\ UNCHANGED outside_api

\* bodies of PATCH /lead-registration/{id}/: a new e-mail, or completed_at
\* as null or as a timestamp
LeadPatches(now) ==
    {[keys |-> {"email"}, email |-> e, completed_at |-> None] :
        e \in ApiPatchEmails}
    \cup {[keys |-> {"completed_at"}, email |-> "", completed_at |-> c] :
             c \in {None, now}}

\* LeadRegistrationViewSet.update (PATCH comes through it with partial set):
\* the checkout session is created before the serializer validates, and an
\* exception from it leaves the request unanswered (500)
PatchLead ==
    \E lid \in 1..Len(leads), data \in LeadPatches(clock),
       stripe_ok \in BOOLEAN :
        LET c == create_checkout_session(options, lid, today, stripe_ok)
            wants_checkout == /\ "completed_at" \in data.keys
                              /\ leads[lid].completed_at = None
            v == validate_email_of(leads[lid].email, users, data.email)
            rejected == "email" \in data.keys /\ ~v.ok
        IN
        /\ wants_checkout \/ stripe_ok
        /\ req' = Request("partial_update_lead", lid, data.keys, data.email,
                          data.completed_at, None, None)
        /\ IF wants_checkout /\ c.raised # ""
           THEN /\ resp' = Response("partial_update_lead",
                                    HTTP_500_INTERNAL_SERVER_ERROR)
                /\ checkout' = NoSession
                /\ leads' = leads
           ELSE /\ checkout' = IF wants_checkout THEN c.session ELSE NoSession
                /\ IF rejected
                   THEN /\ resp' = Response("partial_update_lead",
                                            HTTP_400_BAD_REQUEST)
                        /\ leads' = leads
                   ELSE /\ resp' = Response("partial_update_lead", HTTP_200_OK)
                        /\ leads' =
                              [leads EXCEPT
                                 ![lid].email =
                                     IF "email" \in data.keys
                                     THEN v.value ELSE @,
                                 ![lid].completed_at =
                                     IF "completed_at" \in data.keys
                                     THEN data.completed_at ELSE @]
        /\ UNCHANGED <<options, users, tokens, outbox>>
        /\ UNCHANGED outside_api

\* RegistrationOptionsViewSet.create
PostOption ==
    \E ref \in 1..Len(leads), data \in OptionRequests :
        /\ Rows < MaxApiRows
        /\ req' = Request("create_option", ref, {"package", "promotion"}, "",
                          None, data.package, data.promotion)
        /\ options' = Append(options, [lead_registration |-> ref,
                                       package |-> data.package,
                                       promotion |-> data.promotion,
                                       paid_at |-> None])
        /\ resp' = Response("create_option", HTTP_201_CREATED)
        /\ checkout' = NoSession
        /\ UNCHANGED <<leads, users, tokens, outbox>>
        /\ UNCHANGED outside_api

\* RegistrationOptionsViewSet update and partial_update: get_object checks
\* IsLeadRegistrationNotCompleted on the stored option before the save;
\* lead_registration and package are writable, paid_at is not a field
UpdateOption ==
    \E oid \in 1..Len(options), package \in {2}, ref \in 1..Len(leads),
       op \in {"update_option", "partial_update_option"} :
        /\ req' = Request(op, oid, {"lead_registration", "package"}, "", None,
                          package, None)
        /\ IF has_object_permission(leads, options[oid])
           THEN /\ options' = [options EXCEPT ![oid].package = package,
                                              ![oid].lead_registration = ref]
                /\ resp' = Response(op, HTTP_200_OK)
           ELSE /\ options' = options
                /\ resp' = Response(op, HTTP_403_FORBIDDEN)
        /\ checkout' = NoSession
        /\ UNCHANGED <<leads, users, tokens, outbox>>
        /\ UNCHANGED outside_api

ApiNext == ApiRegister \/ PostLead \/ PatchLead \/ PostOption \/ UpdateOption

ApiSpec == ApiInit /\ [][ApiNext]_vars

(* ------------------------- PropertyUpdateView ------------------------- *)
\* what a POST may carry for every form
PropertyData == {1, 2}

\* the position of a form in the save sequence
Position(f) == CHOOSE k \in 1..Len(SaveOrder) : SaveOrder[k] = f

\* the rows once the first k saves of form_valid have run
saved_through(db, data, k) ==
    [f \in PropertyForms |-> IF Position(f) <= k THEN data ELSE db[f]]

\* the save sequence with every statement committed on its own
transaction_autocommit(db, data, raising) ==
    IF raising = "none" THEN saved_through(db, data, Len(SaveOrder))
    ELSE saved_through(db, data, Position(raising) - 1)

\* with transaction.atomic(): the nine saves commit together, and an
\* exception raised by one of them rolls the block back
transaction_atomic(db, data, raising) ==
    IF raising = "none" THEN saved_through(db, data, Len(SaveOrder))
    ELSE db

\* PropertyUpdateView.form_valid; invalid: the forms whose is_valid() is
\* false; raising: the form whose save() raises, if any
form_valid(db, invalid, raising, data) ==
    IF invalid # {} THEN [db |-> db, outcome |-> "form_invalid"]
    ELSE [db |-> transaction_atomic(db, data, raising),
          outcome |-> IF raising = "none" THEN "redirect" ELSE "error"]

\* UpdateView.post: form_valid runs only when the property form is valid
UpdateProperty ==
    \E bad \in PropertyForms \cup {"none"},
       raising \in PropertyForms \cup {"none"}, data \in PropertyData :
        LET invalid == IF bad = "none" THEN {} ELSE {bad}
            r == IF "property" \in invalid
                 THEN [db |-> property_db, outcome |-> "form_invalid"]
                 ELSE form_valid(property_db, invalid, raising, data)
        IN  /\ property_db' = r.db
            /\ prop_req' = [op |-> "post", invalid |-> invalid,
                            raising |-> raising, data |-> data,
                            outcome |-> r.outcome]
            /\ UNCHANGED outside_prop

PropertyInit == EmptyTables /\ Idle

PropertySpec == PropertyInit /\ [][UpdateProperty]_vars

(* ---------------------------- WebsiteViewSet -------------------------- *)
HTTP_404_NOT_FOUND == 404

\* the authenticated users who send requests: two owners and a staff user
SiteUsers == <<[is_staff |-> FALSE], [is_staff |-> FALSE], [is_staff |-> TRUE]>>
DomainNames == {"a.com", "b.com"}

\* WebsiteViewSet.get_queryset: the primary keys the request may reach.
\* Both branches return the unfiltered queryset.
get_queryset(W, user) ==
    IF SiteUsers[user].is_staff THEN 1..Len(W) ELSE 1..Len(W)

WebResponse(op, user, id, status, listed) ==
    [op |-> op, user |-> user, id |-> id, status |-> status,
     listed |-> listed]

\* ListModelMixin.list
ListWebsites ==
    \E user \in 1..Len(SiteUsers) :
        /\ web_req' = WebResponse("list", user, 0, HTTP_200_OK,
                                  get_queryset(websites, user))
        /\ UNCHANGED websites
        /\ UNCHANGED outside_web

\* RetrieveModelMixin.retrieve: get_object looks the pk up in get_queryset
RetrieveWebsite ==
    \E user \in 1..Len(SiteUsers), id \in 1..Len(websites) :
        /\ web_req' = WebResponse("retrieve", user, id,
                                  IF id \in get_queryset(websites, user)
                                  THEN HTTP_200_OK ELSE HTTP_404_NOT_FOUND,
                                  {})
        /\ UNCHANGED websites
        /\ UNCHANGED outside_web

\* UpdateModelMixin.partial_update of domain_name
UpdateWebsite ==
    \E user \in 1..Len(SiteUsers), id \in 1..Len(websites),
       domain_name \in DomainNames :
        IF id \in get_queryset(websites, user)
        THEN /\ websites' = [websites EXCEPT ![id].domain_name = domain_name]
             /\ web_req' = WebResponse("partial_update", user, id,
                                       HTTP_200_OK, {})
             /\ UNCHANGED outside_web
        ELSE /\ web_req' = WebResponse("partial_update", user, id,
                                       HTTP_404_NOT_FOUND, {})
             /\ UNCHANGED websites
             /\ UNCHANGED outside_web

WebsiteNext == ListWebsites \/ RetrieveWebsite \/ UpdateWebsite

WebsiteInit == EmptyTables /\ Idle

WebsiteSpec == WebsiteInit /\ [][WebsiteNext]_vars

(* ----------------------- login and verification ----------------------- *)
HTTP_302_FOUND == 302
HTTP_401_UNAUTHORIZED == 401

\* e-mails the mail backend may be handed in AuthSpec
MaxMails == 3

SuperuserEmail == "root@x.com"
\* the addresses submitted to the login and resend endpoints; nobody ever
\* registers z@x.com
AuthEmails == {"a@x.com", SuperuserEmail, "z@x.com"}

\* django.contrib.auth.authenticate with ModelBackend: the user with that
\* e-mail when the password checks and the user is active, else None.
\* password_ok: the submitted password is the one the user has set.
authenticate(U, email, password_ok) ==
    LET found == UsersByEmail(U, email) IN
    IF found = {} THEN None
    ELSE LET u == CHOOSE i \in found : TRUE IN
         IF password_ok /\ U[u].password = USABLE_PASSWORD /\ U[u].is_active
         THEN u ELSE None

AuthResponse(op, email, password_ok, status, body, jwt) ==
    [op |-> op, email |-> email, password_ok |-> password_ok,
     status |-> status, body |-> body, jwt |-> jwt]

\* LoginAPIView.post
Login ==
    \E email \in AuthEmails, password_ok \in BOOLEAN :
        LET user == authenticate(users, email, password_ok) IN
        /\ auth' =
             IF user = None
             THEN AuthResponse("login", email, password_ok,
                      HTTP_401_UNAUTHORIZED, "Invalid email or password.",
                      FALSE)
             ELSE IF ~users[user].is_email_confirmed
             THEN AuthResponse("login", email, password_ok,
                      HTTP_403_FORBIDDEN,
                      "Please verify your email address before logging in.",
                      FALSE)
             ELSE AuthResponse("login", email, password_ok, HTTP_200_OK,
                      "Login successful.", TRUE)
        /\ UNCHANGED <<users, tokens, outbox, resp>>
        /\ UNCHANGED outside_auth

\* EmailLoginView: AuthenticationForm.clean authenticates, form_valid
\* turns unconfirmed users back; jwt stands for the session login
WebLogin ==
    \E email \in AuthEmails, password_ok \in BOOLEAN :
        LET user == authenticate(users, email, password_ok) IN
        /\ auth' =
             IF user = None
             THEN AuthResponse("web_login", email, password_ok, HTTP_200_OK,
                      "Please enter a correct email and password.", FALSE)
             ELSE IF ~users[user].is_email_confirmed
             THEN AuthResponse("web_login", email, password_ok, HTTP_200_OK,
                      "Please verify your email address before logging in.",
                      FALSE)
             ELSE AuthResponse("web_login", email, password_ok,
                      HTTP_302_FOUND, "", TRUE)
        /\ UNCHANGED <<users, tokens, outbox, resp>>
        /\ UNCHANGED outside_auth

\* status and body of ResendVerificationAPIView.post for an e-mail
resend_response(U, email) ==
    LET found == UsersByEmail(U, email) IN
    IF found = {}
    THEN [status |-> HTTP_200_OK,
          body |-> "If an account exists with this email, a verification link has been sent."]
    ELSE IF U[CHOOSE i \in found : TRUE].is_email_confirmed
    THEN [status |-> HTTP_200_OK, body |-> "This email is already verified."]
    ELSE [status |-> HTTP_200_OK, body |-> "Verification email has been sent."]

\* ResendVerificationAPIView.post: an unconfirmed user gets a fresh token
\* and the activation mail
ResendVerification ==
    \E email \in AuthEmails :
        LET found == UsersByEmail(users, email)
            r == resend_response(users, email)
        IN
        /\ auth' = AuthResponse("resend", email, FALSE, r.status, r.body, FALSE)
        /\ IF found # {} /\ ~users[CHOOSE i \in found : TRUE].is_email_confirmed
           THEN /\ Len(outbox) < MaxMails
                /\ tokens' = refresh_user_token(tokens,
                                 CHOOSE i \in found : TRUE, clock)
                /\ outbox' = Append(outbox, ActivationMail(email))
           ELSE UNCHANGED <<tokens, outbox>>
        /\ UNCHANGED <<users, resp>>
        /\ UNCHANGED outside_auth

\* verify_email: an expired token is deleted; otherwise its user, unless
\* already confirmed, becomes confirmed and active and the token is deleted
VerifyEmail ==
    \E t \in tokens :
        /\ tokens' = tokens \ {t}
        /\ users' = IF is_expired(t, clock) \/ users[t.user].is_email_confirmed
                    THEN users
                    ELSE [users EXCEPT ![t.user].is_email_confirmed = TRUE,
                                       ![t.user].is_active = TRUE]
        /\ auth' = AuthResponse("verify_email", users[t.user].email, FALSE,
                                HTTP_302_FOUND, "", FALSE)
        /\ UNCHANGED <<outbox, resp>>
        /\ UNCHANGED outside_auth

\* RegisterAPIView.create
AuthRegister ==
    /\ Len(outbox) < MaxMails
    /\ create_user("a@x.com")
    /\ auth' = AuthResponse("register", "a@x.com", FALSE, HTTP_201_CREATED,
                            "", FALSE)
    /\ UNCHANGED outside_auth

\* UserManager.create_superuser: active, with a password, not confirmed
CreateSuperuser ==
    /\ UsersByEmail(users, SuperuserEmail) = {}
    /\ users' = Append(users, [email |-> normalize_email(SuperuserEmail),
                               first_name |-> "", last_name |-> "",
                               phone_number |-> NoneStr,
                               is_active |-> TRUE,
                               is_email_confirmed |-> FALSE,
                               password |-> USABLE_PASSWORD])
    /\ auth' = AuthResponse("createsuperuser", SuperuserEmail, FALSE, 0, "",
                            FALSE)
    /\ UNCHANGED <<tokens, outbox, resp>>
    /\ UNCHANGED outside_auth

AuthNext ==
    \/ Login \/ WebLogin \/ ResendVerification \/ VerifyEmail
    \/ AuthRegister \/ CreateSuperuser

AuthInit == EmptyTables /\ Idle

AuthSpec == AuthInit /\ [][AuthNext]_vars

(* --------------------------- BookingWizardView ------------------------ *)
\* lead and option rows the wizard may insert
MaxWizardRows == 5

\* cleaned_data of a step's form, as far as the handlers tell it apart:
\* two themes, two contacts, one valid submission of the other forms
WizardData(step) == IF step \in {1, 5} THEN {1, 2} ELSE {1}

\* the Package rows PackageSelectionForm offers; no add-on package exists
WizardPackages == [package |-> 1, hosting_plan |-> 2]

\* e-mail typed into ContactDetailsForm
ContactEmail(d) == IF d = 1 THEN "a@x.com" ELSE "b@x.com"

\* a form check that lets every submission through
is_valid_always(form) == TRUE

\* form.is_valid()
is_valid(form) == form.valid

get_current_step(s) == IF s.wizard_step = NoStep THEN 1 ELSE s.wizard_step

save_step_data(s, step, data) == [s EXCEPT !.wizard_data[step] = data]

\* a lookup that never finds the lead of the session
session_lead_never_found(L, s) == None

\* create_or_update_lead, "Get or create lead": the lead the session names,
\* None when it names none or the row is gone
session_lead(L, s) ==
    IF s.lead_registration_id # None /\ s.lead_registration_id \in 1..Len(L)
    THEN s.lead_registration_id ELSE None

\* BookingWizardView.create_or_update_lead for an anonymous visitor
create_or_update_lead(L, s, d) ==
    LET lead == session_lead(L, s) IN
    IF lead # None
    THEN [leads |-> [L EXCEPT ![lead].email = ContactEmail(d),
                              ![lead].first_name = "John",
                              ![lead].last_name = "Doe",
                              ![lead].phone_number = "+356"],
          id |-> lead]
    ELSE [leads |-> Append(L, [email |-> ContactEmail(d),
                               first_name |-> "John", last_name |-> "Doe",
                               phone_number |-> "+356", user |-> None,
                               completed_at |-> None]),
          id |-> Len(L) + 1]

\* the promotion complete_wizard attaches to the builder package
wizard_promotion(pk, day) ==
    LET running == {k \in 1..Len(PromotionTable) :
                       /\ PromotionTable[k].package = pk
                       /\ PromotionTable[k].start_date <= day
                       /\ PromotionTable[k].end_date >= day}
    IN  IF running = {} THEN [raised |-> "", promotion |-> None]
        ELSE LET first == CHOOSE k \in running : \A j \in running : k <= j
                 a == is_promotion_available(PromotionTable[first], day)
             IN  IF a.raised # "" THEN [raised |-> a.raised, promotion |-> None]
                 ELSE [raised |-> "",
                       promotion |-> IF a.value THEN first ELSE None]

WizardOutcome(s, O, session_made, outcome) ==
    [session |-> s, options |-> O, checkout |-> session_made,
     outcome |-> outcome]

\* BookingWizardView.complete_wizard: the options are inserted one by one
\* outside any transaction, so an exception leaves the earlier ones behind;
\* lead_registration_id stays in the session after the checkout is made
complete_wizard(L, O, s, day, stripe_ok) ==
    IF s.lead_registration_id = None
    THEN WizardOutcome(s, O, NoSession, "session_expired")
    ELSE IF session_lead(L, s) = None
    THEN WizardOutcome(s, O, NoSession, "error")
    ELSE
      LET lid == session_lead(L, s)
          p == wizard_promotion(WizardPackages.package, day)
          made == IF s.wizard_data[6] = None THEN O
                  ELSE O \o <<[lead_registration |-> lid,
                               package |-> WizardPackages.package,
                               promotion |-> p.promotion,
                               paid_at |-> None],
                              [lead_registration |-> lid,
                               package |-> WizardPackages.hosting_plan,
                               promotion |-> None,
                               paid_at |-> None]>>
          c == create_checkout_session(made, lid, day, stripe_ok)
      IN  IF s.wizard_data[6] # None /\ p.raised # ""
          THEN WizardOutcome(s, O, NoSession, "error")
          ELSE IF c.raised # ""
          THEN WizardOutcome(s, made, NoSession, "error")
          ELSE WizardOutcome([s EXCEPT !.wizard_data = [k \in Steps |-> None],
                                       !.wizard_step = NoStep],
                             made, c.session, "checkout")

WizardRequest(op, step, valid, data, outcome) ==
    [op |-> op, step |-> step, valid |-> valid, data |-> data,
     outcome |-> outcome]

\* BookingWizardView.get
WizardGet ==
    /\ wiz' = WizardRequest("get", get_current_step(session), FALSE, 0,
                            "render")
    /\ checkout' = NoSession
    /\ UNCHANGED <<session, leads, options>>
    /\ UNCHANGED outside_wizard

\* BookingWizardView.post.  stripe_ok matters at step 7 only.
WizardPost ==
    \E valid \in BOOLEAN, d \in WizardData(get_current_step(session)),
       stripe_ok \in BOOLEAN :
        LET step == get_current_step(session)
            form == [valid |-> valid, data |-> d]
            saved == save_step_data(session, step, d)
            lead == create_or_update_lead(leads, saved, d)
            with_lead == IF step = 5
                         THEN [saved EXCEPT !.lead_registration_id = lead.id]
                         ELSE saved
            done == complete_wizard(leads, options, with_lead, today,
                                    stripe_ok)
        IN
        /\ stripe_ok \/ (is_valid(form) /\ step = TOTAL_STEPS)
        /\ IF ~is_valid(form)
           THEN /\ wiz' = WizardRequest("post", step, valid, d, "errors")
                /\ checkout' = NoSession
                /\ UNCHANGED <<session, leads, options>>
           ELSE IF step < TOTAL_STEPS
           THEN /\ session' = [with_lead EXCEPT !.wizard_step = step + 1]
                /\ leads' = IF step = 5 THEN lead.leads ELSE leads
                /\ wiz' = WizardRequest("post", step, valid, d, "next")
                /\ checkout' = NoSession
                /\ UNCHANGED options
           ELSE /\ session' = done.session
                /\ options' = done.options
                /\ checkout' = done.checkout
                /\ wiz' = WizardRequest("post", step, valid, d, done.outcome)
                /\ UNCHANGED leads
        /\ Len(leads') + Len(options') <= MaxWizardRows
        /\ UNCHANGED outside_wizard

\* a back step that does not look at the current step
wizard_go_back_unguarded(s) ==
    [s EXCEPT !.wizard_step = get_current_step(s) - 1]

\* wizard_go_back (the view of wizard/back/)
wizard_go_back(s) ==
    IF get_current_step(s) > 1
    THEN [s EXCEPT !.wizard_step = get_current_step(s) - 1]
    ELSE s

\* a reset that forgets the lead but not the step
wizard_reset_keeps_step(s) ==
    [s EXCEPT !.wizard_data = [k \in Steps |-> None],
              !.lead_registration_id = None]

\* wizard_reset pops wizard_data, wizard_step and lead_registration_id
wizard_reset(s) ==
    [s EXCEPT !.wizard_data = [k \in Steps |-> None],
              !.wizard_step = NoStep,
              !.lead_registration_id = None]

WizardGoBack ==
    /\ session' = wizard_go_back(session)
    /\ wiz' = WizardRequest("back", get_current_step(session), FALSE, 0,
                            "redirect")
    /\ checkout' = NoSession
    /\ UNCHANGED <<leads, options>>
    /\ UNCHANGED outside_wizard

WizardReset ==
    /\ session' = wizard_reset(session)
    /\ wiz' = WizardRequest("reset", get_current_step(session), FALSE, 0,
                            "redirect")
    /\ checkout' = NoSession
    /\ UNCHANGED <<leads, options>>
    /\ UNCHANGED outside_wizard

WizardNext == WizardGet \/ WizardPost \/ WizardGoBack \/ WizardReset

WizardInit == EmptyTables /\ Idle

WizardSpec == WizardInit /\ [][WizardNext]_vars

(* ------------------- API, wizard and webhook together ----------------- *)
\* Stripe delivers checkout.session.completed for a checkout session that
\* was created: here for the one the last request created, any number of
\* times, with or without a valid signature
SiteWebhook ==
    /\ checkout # NoSession
    /\ \E sig \in SigHeaders, mail_ok \in BOOLEAN :
           post(sig,
                Event(CHECKOUT_COMPLETED, RefUuid(checkout.client_reference_id)),
                mail_ok)
    /\ UNCHANGED outside_payment

\* rows the three entry points together may insert
MaxSiteRows == 4

\* the requests that write the database, each with one of its inputs: a
\* lead of a@x.com, a PATCH of completed_at, an option of package 1, a PATCH
\* of an option, a valid wizard form with the first of its values
SiteNext ==
    \/ PostLead /\ req'.email = "a@x.com" /\ Rows' <= MaxSiteRows
    \/ PatchLead /\ req'.keys = {"completed_at"}
    \/ PostOption /\ req'.package = 1 /\ req'.promotion = None
                  /\ Rows' <= MaxSiteRows
    \/ UpdateOption /\ req'.op = "partial_update_option"
    \/ WizardPost /\ wiz'.data = 1 /\ wiz'.valid /\ Rows' <= MaxSiteRows
    \/ SiteWebhook

SiteInit == EmptyTables /\ Idle

SiteSpec == SiteInit /\ [][SiteNext]_vars

(* ------------------ two webhook requests at the same time ------------- *)
\* the web workers; worker w handles the checkout.session.completed event
\* of lead w
Workers == {1, 2}

\* two leads of one e-mail address, an unpaid option each, no user yet
RaceLeads ==
    [w \in Workers |-> [email |-> "a@x.com", first_name |-> "John",
                        last_name |-> "Doe", phone_number |-> "+356",
                        user |-> None, completed_at |-> None]]
RaceOptions ==
    [w \in Workers |-> [lead_registration |-> w, package |-> 1,
                        promotion |-> None, paid_at |-> None]]

\* pc: the statement the worker runs next; row: its StripeWebhookPayload;
\* selected: what the SELECT of get_or_create saw; user, created: what
\* get_or_create returned; updated, status: the outcome of the request
NoWork == [pc |-> "receive", row |-> 0, selected |-> "", user |-> None,
           created |-> FALSE, updated |-> FALSE, status |-> 0]

RaceInit ==
    /\ leads = RaceLeads
    /\ options = RaceOptions
    /\ users = <<>> /\ tokens = {} /\ webhooks = <<>> /\ outbox = <<>>
    /\ clock = 1 /\ resp = NoResp
    /\ PromoIdle /\ ApiIdle /\ PropIdle /\ WebIdle /\ AuthIdle /\ WizardIdle
    /\ inflight = [w \in Workers |-> NoWork]

\* an insert whose unique violation is passed on to the caller
create_without_retry(U, lead) ==
    IF UsersByEmail(U, lead.email) # {}
    THEN [raised |-> TRUE, users |-> U, user |-> None, created |-> FALSE]
    ELSE [raised |-> FALSE, users |-> Append(U, NewUser(lead)),
          user |-> Len(U) + 1, created |-> TRUE]

\* the second half of QuerySet.get_or_create, run after its SELECT found
\* nothing: the INSERT, and when BNBUser.email (unique) rejects it because
\* the row has appeared meanwhile, the row is fetched and returned
create_or_get(U, lead) ==
    IF UsersByEmail(U, lead.email) # {}
    THEN [raised |-> FALSE, users |-> U,
          user |-> CHOOSE i \in UsersByEmail(U, lead.email) : TRUE,
          created |-> FALSE]
    ELSE [raised |-> FALSE, users |-> Append(U, NewUser(lead)),
          user |-> Len(U) + 1, created |-> TRUE]

\* post: the signature is valid, the payload row is inserted, the lead found
RaceReceive(w) ==
    /\ inflight[w].pc = "receive"
    /\ webhooks' = Append(webhooks,
                      created_record(Event(CHECKOUT_COMPLETED, RefUuid(w))))
    /\ inflight' = [inflight EXCEPT ![w].pc = "update",
                                    ![w].row = Len(webhooks) + 1]
    /\ UNCHANGED <<leads, options, users, tokens, outbox, resp>>
    /\ UNCHANGED outside_race

\* handle_checkout_session_completed: registration_options.update(paid_at)
RacePaid(w) ==
    /\ inflight[w].pc = "update"
    /\ options' = update_paid_at(options, w, clock)
    /\ inflight' = [inflight EXCEPT ![w].pc = "select"]
    /\ UNCHANGED <<leads, users, tokens, webhooks, outbox, resp>>
    /\ UNCHANGED outside_race

\* create_user_from_lead: the SELECT of get_or_create
RaceSelect(w) ==
    /\ inflight[w].pc = "select"
    /\ LET found == UsersByEmail(users, leads[w].email) IN
       inflight' =
          IF found = {}
          THEN [inflight EXCEPT ![w].pc = "insert", ![w].selected = "none"]
          ELSE [inflight EXCEPT ![w].pc = "email", ![w].selected = "found",
                                ![w].user = CHOOSE i \in found : TRUE,
                                ![w].updated = TRUE]
    /\ UNCHANGED <<leads, options, users, tokens, webhooks, outbox, resp>>
    /\ UNCHANGED outside_race

\* create_user_from_lead: the INSERT of get_or_create; an exception ends
\* the handler with (False, "Error handling ...")
RaceInsert(w) ==
    /\ inflight[w].pc = "insert"
    /\ LET g == create_or_get(users, leads[w]) IN
       /\ users' = g.users
       /\ inflight' =
            IF g.raised
            THEN [inflight EXCEPT ![w].pc = "respond"]
            ELSE [inflight EXCEPT ![w].pc = IF g.created THEN "link"
                                            ELSE "email",
                                  ![w].user = g.user,
                                  ![w].created = g.created,
                                  ![w].updated = TRUE]
    /\ UNCHANGED <<leads, options, tokens, webhooks, outbox, resp>>
    /\ UNCHANGED outside_race

\* create_user_from_lead, "if created": the password and the lead's user
RaceLink(w) ==
    /\ inflight[w].pc = "link"
    /\ users' = [users EXCEPT ![inflight[w].user].password = UNUSABLE_PASSWORD]
    /\ leads' = [leads EXCEPT ![w].user = inflight[w].user]
    /\ inflight' = [inflight EXCEPT ![w].pc = "email"]
    /\ UNCHANGED <<options, tokens, webhooks, outbox, resp>>
    /\ UNCHANGED outside_race

\* send_payment_confirmation_email inside its try block
RaceEmail(w) ==
    /\ inflight[w].pc = "email"
    /\ \E mail_ok \in BOOLEAN :
           LET e == send_payment_confirmation_email(
                        leads, users, tokens, options, outbox, w, clock,
                        mail_ok)
           IN  /\ leads' = e.leads
               /\ users' = e.users
               /\ tokens' = e.tokens
               /\ outbox' = e.outbox
    /\ inflight' = [inflight EXCEPT ![w].pc = "respond"]
    /\ UNCHANGED <<options, webhooks, resp>>
    /\ UNCHANGED outside_race

\* post: the payload row is saved and the response returned
RaceRespond(w) ==
    /\ inflight[w].pc = "respond"
    /\ webhooks' = [webhooks EXCEPT ![inflight[w].row] =
                       saved_record(@, w, clock, inflight[w].updated)]
    /\ inflight' = [inflight EXCEPT
                      ![w].pc = "done",
                      ![w].status = IF inflight[w].updated THEN HTTP_200_OK
                                    ELSE HTTP_400_BAD_REQUEST]
    /\ UNCHANGED <<leads, options, users, tokens, outbox, resp>>
    /\ UNCHANGED outside_race

RaceNext ==
    \E w \in Workers :
        \/ RaceReceive(w) \/ RacePaid(w) \/ RaceSelect(w) \/ RaceInsert(w)
        \/ RaceLink(w) \/ RaceEmail(w) \/ RaceRespond(w)

RaceSpec == RaceInit /\ [][RaceNext]_vars

(* ------------------------------ properties ---------------------------- *)
Last(seq) == seq[Len(seq)]

\* this step handles a verified checkout.session.completed event whose
\* client_reference_id is the id of the existing lead lid
CheckoutStep(lid) ==
    /\ lid \in 1..Len(leads)
    /\ Len(webhooks') = Len(webhooks) + 1
    /\ resp'.op = "webhook"
    /\ resp'.event = Event(CHECKOUT_COMPLETED, RefUuid(lid))

\* the last request was such an event for lead lid
CheckoutDone(lid) ==
    /\ lid \in 1..Len(leads)
    /\ resp.op = "webhook"
    /\ resp.event = Event(CHECKOUT_COMPLETED, RefUuid(lid))

PaidAtOfLeadOnly(lid) ==
    /\ Len(options') = Len(options)
    /\ \A i \in 1..Len(options) :
          IF options[i].lead_registration = lid
          THEN /\ options'[i].paid_at # None
               /\ options'[i].paid_at # options[i].paid_at
          ELSE options'[i].paid_at = options[i].paid_at

\* C2 as stated: a verified checkout.session.completed event for an
\* existing lead is answered 200 and changes paid_at of exactly that lead's
\* options, all of them.
C2_Original ==
    [][\A lid \in 1..Len(leads) : CheckoutStep(lid)
        => /\ resp'.status = HTTP_200_OK
           /\ PaidAtOfLeadOnly(lid)]_vars

\* C2 amended: the event is answered 200 when a user with the lead's e-mail
\* exists afterwards and 400 when creating that user raised; either way
\* paid_at changes for exactly that lead's options, all of them.
C2_PaidAtExactlyLeadOptions ==
    [][\A lid \in 1..Len(leads) : CheckoutStep(lid)
        => /\ resp'.status = IF UsersByEmail(users', leads[lid].email) # {}
                             THEN HTTP_200_OK ELSE HTTP_400_BAD_REQUEST
           /\ PaidAtOfLeadOnly(lid)]_vars

\* a lead with two options of one package was paid: both carry paid_at
C2_Witness ==
    \E lid \in 1..Len(leads) :
        /\ CheckoutDone(lid)
        /\ resp.status = HTTP_200_OK
        /\ Cardinality(OptionsOf(options, lid)) = 2
        /\ \A i \in OptionsOf(options, lid) :
              options[i].paid_at # None /\ options[i].package = 1

\* C3: after a checkout.session.completed event for an existing lead was
\* answered 200, a user with the lead's e-mail exists and the lead's user
\* field references it; a user the handler created (unusable password) is
\* active and unconfirmed.
C3_LeadLinkedToUser ==
    \A lid \in 1..Len(leads) :
        (CheckoutDone(lid) /\ resp.status = HTTP_200_OK)
        => \E u \in 1..Len(users) :
              /\ users[u].email = leads[lid].email
              /\ leads[lid].user = u
              /\ users[u].password = UNUSABLE_PASSWORD
                    => users[u].is_active /\ ~users[u].is_email_confirmed

\* C4: user creation by the webhook is get-or-create: no two users ever
\* share an e-mail address, and a webhook request leaves every user row
\* that existed before it unchanged.
C4_GetOrCreate ==
    [][/\ \A i, j \in 1..Len(users') :
             users'[i].email = users'[j].email => i = j
       /\ resp'.op = "webhook"
             => /\ Len(users') >= Len(users)
                /\ \A u \in 1..Len(users) : users'[u] = users[u]]_vars

\* a paid lead whose e-mail belonged to a registered user with other names
C4_Witness ==
    \E lid \in 1..Len(leads), u \in 1..Len(users) :
        /\ CheckoutDone(lid)
        /\ resp.status = HTTP_200_OK
        /\ users[u].email = leads[lid].email
        /\ users[u].first_name # leads[lid].first_name
        /\ users[u].password = USABLE_PASSWORD
        /\ ~users[u].is_active

\* C5: a second delivery of a checkout.session.completed event that was
\* processed before leaves every paid_at at the value it had.
C5_PaidAtIdempotent ==
    [][\A lid \in 1..Len(leads) :
          (/\ CheckoutStep(lid)
           /\ \E k \in 1..Len(webhooks) :
                 /\ webhooks[k].payload = resp'.event
                 /\ webhooks[k].processed_successfully)
          => \A i \in 1..Len(options) :
                options[i].paid_at # None
                    => options'[i].paid_at = options[i].paid_at]_vars

\* C6: when send_payment_confirmation_email raises, the response is still
\* 200, the payload record is processed_successfully with completed_at,
\* the lead's options carry the paid_at of this request, the user exists,
\* and no e-mail leaves (nothing retries it).
C6_EmailFailureSwallowed ==
    [][\A lid \in 1..Len(leads) :
          (CheckoutStep(lid) /\ resp'.email \notin {"sent", "not_attempted"})
          => /\ resp'.status = HTTP_200_OK
             /\ Last(webhooks').processed_successfully
             /\ Last(webhooks').completed_at = clock
             /\ \A i \in OptionsOf(options', lid) : options'[i].paid_at = clock
             /\ UsersByEmail(users', leads[lid].email) # {}
             /\ outbox' = outbox]_vars

\* the mail backend refused the message of a paid lead with an option
C6_Witness ==
    \E lid \in 1..Len(leads) :
        /\ CheckoutDone(lid)
        /\ resp.email = "SMTPException"
        /\ resp.status = HTTP_200_OK
        /\ OptionsOf(options, lid) # {}
        /\ leads[lid].user # None

\* C7: when get-or-create of the user raises (no user has the lead's
\* e-mail and the lead lacks a name), the response is 400, the record is
\* not processed_successfully, and the lead's options keep the paid_at
\* written just before.
C7_NoCompensation ==
    [][\A lid \in 1..Len(leads) :
          (/\ CheckoutStep(lid)
           /\ UsersByEmail(users, leads[lid].email) = {}
           /\ (leads[lid].first_name = NoneStr \/ leads[lid].last_name = NoneStr))
          => /\ resp'.status = HTTP_400_BAD_REQUEST
             /\ ~Last(webhooks').processed_successfully
             /\ users' = users
             /\ \A i \in OptionsOf(options, lid) : options'[i].paid_at = clock]_vars

\* a nameless lead with an option was paid: 400, no user, paid_at written
C7_Witness ==
    \E lid \in 1..Len(leads) :
        /\ CheckoutDone(lid)
        /\ resp.status = HTTP_400_BAD_REQUEST
        /\ leads[lid].first_name = NoneStr
        /\ users = <<>>
        /\ \E i \in OptionsOf(options, lid) : options[i].paid_at = clock - 1

\* C8: every checkout.session.completed event answered 200 puts exactly
\* one payment confirmation e-mail to the lead's address into the outbox
\* and leaves a non-expired token of the lead's user (requests during
\* which the mail backend refuses the message are left aside).
C8_ExactlyOneEmail ==
    [][\A lid \in 1..Len(leads) :
          (/\ CheckoutStep(lid)
           /\ resp'.status = HTTP_200_OK
           /\ resp'.email # "SMTPException")
          => /\ outbox' = Append(outbox, PaymentMail(leads[lid].email))
             /\ \E t \in tokens' :
                   t.user = leads'[lid].user /\ ~is_expired(t, clock')]_vars

\* C9: a webhook request that passes verification appends exactly one
\* payload record holding the received JSON, with completed_at set
\* whenever the event handler returned; a rejected request appends none.
C9_AuditLogComplete ==
    [][resp'.op = "webhook"
        => IF resp'.sig = "valid" /\ resp'.json
           THEN /\ Len(webhooks') = Len(webhooks) + 1
                /\ SubSeq(webhooks', 1, Len(webhooks)) = webhooks
                /\ Last(webhooks').payload = resp'.event
                /\ resp'.reason # "validation error"
                      => Last(webhooks').completed_at = clock
           ELSE webhooks' = webhooks]_vars

\* the handler returned "not found" and the record is stamped all the same
C9_Witness ==
    /\ resp.op = "webhook"
    /\ resp.reason = "Lead registration not found"
    /\ Last(webhooks).payload = resp.event
    /\ Last(webhooks).completed_at # None
    /\ ~Last(webhooks).processed_successfully

\* what C10 promises of one request
DefaultHandled ==
    /\ resp'.status = HTTP_200_OK
    /\ Last(webhooks').completed_at = clock
    /\ UNCHANGED <<leads, options, users>>

\* C10 as stated: every verified event whose type has no registered
\* handler is answered 200, recorded with completed_at and changes no
\* lead, option or user.
C10_Original ==
    [][(/\ resp'.op = "webhook" /\ resp'.sig = "valid" /\ resp'.json
        /\ resp'.event.type # CHECKOUT_COMPLETED)
        => DefaultHandled]_vars

\* C10 amended: the same of every such event that validates as a
\* StripeEvent (client_reference_id absent or a UUID, not null).
C10_DefaultHandler ==
    [][(/\ resp'.op = "webhook" /\ resp'.sig = "valid" /\ resp'.json
        /\ resp'.event.type # CHECKOUT_COMPLETED
        /\ resp'.event.ref.kind # "null")
        => DefaultHandled]_vars

\* payment_intent.created arrived while a lead had an unpaid option
C10_Witness ==
    /\ resp.op = "webhook"
    /\ resp.event = Event(PAYMENT_INTENT_CREATED, RefAbsent)
    /\ resp.status = HTTP_200_OK
    /\ Last(webhooks).completed_at # None
    /\ \E i \in 1..Len(options) : options[i].paid_at = None

C12_DiscountedAmount ==
    promo_ret.op = "get_discounted_amount"
    => /\ promo_ret.raised = ""
       /\ promo_ret.value =
             IF promo_ret.check_available
             THEN IF is_promotion_available(promo, today).value
                  THEN DiscountedAmount(promo) ELSE FullAmount(promo)
             ELSE DiscountedAmount(promo)
       /\ promo_ret.value >= 0 /\ promo_ret.value <= FullAmount(promo)

\* C13: is_promotion_available returns a boolean, true exactly when
\* start_date <= today <= end_date and units remain (units_available null
\* or greater than 0); that is the rule get_promotions lists by.
C13_AvailabilityRule ==
    promo_ret.op = "is_promotion_available"
    => /\ promo_ret.raised = ""
       /\ promo_ret.value = 1
             <=> /\ promo.start_date <= today /\ today <= promo.end_date
                 /\ (promo.units_available = NullUnits
                        \/ promo.units_available > 0)
       /\ promo_ret.value = 1 <=> get_promotions(promo, today)

\* C14: creating a lead through the API with an e-mail that belongs to an
\* existing user is answered 400 and creates no lead; an update that keeps
\* the lead's stored e-mail is not rejected.
C14_ExistingUserEmailRejected ==
    [][/\ (/\ req'.op = "create_lead"
           /\ \E u \in 1..Len(users) : users[u].email = req'.email)
          => resp'.status = HTTP_400_BAD_REQUEST /\ leads' = leads
       /\ (/\ req'.op = "partial_update_lead"
           /\ "email" \in req'.keys
           /\ req'.email = leads[req'.id].email)
          => resp'.status = HTTP_200_OK]_vars

\* C16: update and partial_update of a registration option whose lead has
\* completed_at set are denied and leave the option as it was.
C16_CompletedLeadLocksOptions ==
    [][(/\ req'.op \in {"update_option", "partial_update_option"}
        /\ leads[options[req'.id].lead_registration].completed_at # None)
        => /\ resp'.status = HTTP_403_FORBIDDEN
           /\ options' = options]_vars

\* a PATCH of an option of a completed lead was denied
C16_Witness ==
    /\ req.op = "partial_update_option"
    /\ resp.status = HTTP_403_FORBIDDEN
    /\ leads[options[req.id].lead_registration].completed_at # None
    /\ options[req.id].package # req.package

\* the packages of the lead's options, and the newest option of a package
PackagesOf(O, lid) == {O[i].package : i \in OptionsOf(O, lid)}
NewestOption(O, lid, pk) ==
    CHOOSE i \in OptionsOf(O, lid) :
        /\ O[i].package = pk
        /\ \A j \in OptionsOf(O, lid) : O[j].package = pk => j <= i

\* C20: a checkout session created for a lead has exactly one line item
\* per distinct package among the lead's options, built from the most
\* recently created option of that package.
C20_OneLineItemPerPackage ==
    [][checkout' # NoSession
        => LET lid == checkout'.client_reference_id
               items == checkout'.line_items
           IN  /\ Len(items) = Cardinality(PackagesOf(options, lid))
               /\ \A pk \in PackagesOf(options, lid) :
                     \E k \in 1..Len(items) :
                        items[k] = line_item(
                            options[NewestOption(options, lid, pk)],
                            today).item]_vars

\* a lead with a full-price and then a discounted option of package 1 got
\* a session with the discounted line item alone
C20_Witness ==
    /\ checkout # NoSession
    /\ LET lid == checkout.client_reference_id IN
       /\ \E i, j \in OptionsOf(options, lid) :
             /\ i < j
             /\ options[i].package = 1 /\ options[i].promotion = None
             /\ options[j].package = 1 /\ options[j].promotion = 1
       /\ Len(checkout.line_items) = 1
       /\ checkout.line_items[1].name = <<1, 20>>
       /\ checkout.line_items[1].unit_amount < package_amount(1)

\* C15: PropertyUpdateView.form_valid is all-or-nothing: the property, its
\* five one-to-one records and its three formsets are written only when
\* all nine forms are valid, in one transaction; when a form is invalid or
\* a save raises, none of the writes persists.
C15_AllOrNothing ==
    [][prop_req'.op = "post"
        => IF prop_req'.invalid = {} /\ prop_req'.raising = "none"
           THEN \A f \in PropertyForms : property_db'[f] = prop_req'.data
           ELSE property_db' = property_db]_vars

\* the save of the host form raised after four saves of new data; the
\* rows still hold what the previous, successful POST wrote
C15_Witness ==
    /\ prop_req.op = "post"
    /\ prop_req.invalid = {}
    /\ prop_req.raising = "host"
    /\ prop_req.outcome = "error"
    /\ \A f \in PropertyForms :
          property_db[f] # prop_req.data /\ property_db[f] \in PropertyData

\* C17: through WebsiteViewSet a non-staff user lists, retrieves and
\* modifies only the websites they own; a staff user reaches all of them.
C17_OwnWebsitesOnly ==
    web_req.op # "none"
    => IF SiteUsers[web_req.user].is_staff
       THEN /\ web_req.op = "list" => web_req.listed = 1..Len(websites)
            /\ web_req.op # "list" => web_req.status = HTTP_200_OK
       ELSE /\ web_req.op = "list"
               => \A w \in web_req.listed :
                     websites[w].owner = web_req.user
            /\ (web_req.op # "list" /\ web_req.status = HTTP_200_OK)
               => websites[web_req.id].owner = web_req.user

\* C18: the resend-verification API answers a request for the e-mail of
\* an existing user with the status and body it gives for an e-mail that
\* has no account.
C18_NoAccountDisclosure ==
    auth.op = "resend"
    => \A e \in AuthEmails :
          (UsersByEmail(users, auth.email) # {} /\ UsersByEmail(users, e) = {})
          => /\ auth.status = resend_response(users, e).status
             /\ auth.body = resend_response(users, e).body

\* the user with that e-mail, if there is one
UserOf(email) == CHOOSE i \in UsersByEmail(users, email) : TRUE

\* C19: LoginAPIView issues tokens, and EmailLoginView logs in, only a
\* user whose is_email_confirmed is true at that moment; a user with the
\* right password and an unconfirmed e-mail is answered 403 by the API and
\* gets no token.
C19_LoginNeedsConfirmedEmail ==
    [][auth'.op \in {"login", "web_login"}
        => /\ auth'.jwt
              => /\ UsersByEmail(users, auth'.email) # {}
                 /\ users[UserOf(auth'.email)].is_email_confirmed
           /\ (/\ auth'.op = "login"
               /\ UsersByEmail(users, auth'.email) # {}
               /\ auth'.password_ok
               /\ users[UserOf(auth'.email)].password = USABLE_PASSWORD
               /\ ~users[UserOf(auth'.email)].is_email_confirmed)
              => auth'.status = HTTP_403_FORBIDDEN /\ ~auth'.jwt]_vars

\* C21: a POST with a valid form at step s < 7 stores the data of that
\* step and sets wizard_step to s + 1; a POST with an invalid form leaves
\* the session as it was and writes no database row.
C21_AdvanceOnlyOnValid ==
    [][wiz'.op = "post"
        => /\ (wiz'.valid /\ wiz'.step < TOTAL_STEPS)
              => /\ session'.wizard_step = wiz'.step + 1
                 /\ session'.wizard_data[wiz'.step] = wiz'.data
           /\ ~wiz'.valid
              => /\ session' = session
                 /\ UNCHANGED <<leads, options, users, tokens, webhooks>>]_vars

\* C21 witness: a valid contact form posted at step 5 has moved the wizard
\* to step 6.
C21_Witness ==
    /\ wiz.op = "post" /\ wiz.valid /\ wiz.step = 5
    /\ session.wizard_step = 6
    /\ session.wizard_data[5] = wiz.data

\* C22: after every wizard request the step read from the session is in
\* 1..7; going back at step 1 leaves it at 1, and a valid submission at
\* step 7 does not set it to 8.
C22_StepInRange ==
    [][/\ get_current_step(session') \in Steps
       /\ (wiz'.op = "back" /\ wiz'.step = 1)
          => get_current_step(session') = 1
       /\ (wiz'.op = "post" /\ wiz'.valid /\ wiz'.step = TOTAL_STEPS)
          => session'.wizard_step # TOTAL_STEPS + 1]_vars

\* C22 witness: a valid submission at step 7 whose checkout failed leaves
\* the wizard at step 7.
C22_Witness ==
    /\ wiz.op = "post" /\ wiz.valid /\ wiz.step = TOTAL_STEPS
    /\ wiz.outcome = "error"
    /\ session.wizard_step = TOTAL_STEPS

\* C23: whenever the wizard is at step 6 or 7 the session holds
\* lead_registration_id, so complete_wizard never answers "Session
\* expired" to a session the wizard itself brought to step 7.
C23_LeadSetFromStepSix ==
    /\ get_current_step(session) >= 6 => session.lead_registration_id # None
    /\ wiz.outcome # "session_expired"

\* C23 witness: after a reset the wizard has been walked to step 7 again,
\* with a second lead in the session.
C23_Witness ==
    /\ session.wizard_step = TOTAL_STEPS
    /\ Len(leads) = 2
    /\ session.lead_registration_id = 2

\* C24: while the lead named by lead_registration_id exists, a valid step 5
\* creates no LeadRegistration and updates that row; with no lead in the
\* session it creates exactly one and stores its id.
C24_OneLeadPerSession ==
    [][(wiz'.op = "post" /\ wiz'.valid /\ wiz'.step = 5)
        => IF session.lead_registration_id \in 1..Len(leads)
           THEN /\ Len(leads') = Len(leads)
                /\ session'.lead_registration_id = session.lead_registration_id
                /\ leads'[session.lead_registration_id].email
                       = ContactEmail(wiz'.data)
                /\ \A i \in 1..Len(leads) :
                       i # session.lead_registration_id => leads'[i] = leads[i]
           ELSE /\ Len(leads') = Len(leads) + 1
                /\ session'.lead_registration_id = Len(leads')]_vars

\* C24 witness: after a finished checkout the wizard was walked to step 5
\* again and the contact form was posted, and there is still one lead.
C24_Witness ==
    /\ wiz.op = "post" /\ wiz.valid /\ wiz.step = 5
    /\ Len(options) >= 2
    /\ Len(leads) = 1
    /\ session.lead_registration_id = 1

\* a verified checkout.session.completed event naming the lead is on record
CompletedEventFor(W, lid) ==
    \E k \in 1..Len(W) :
        /\ W[k].payload.type = CHECKOUT_COMPLETED
        /\ W[k].payload.ref = RefUuid(lid)

\* C25: an option has paid_at set only if a signature-verified
\* checkout.session.completed event naming its lead has been processed, and
\* a request other than the webhook never sets paid_at.
C25_PaidAtOnlyByReconciliation ==
    [][/\ \A i \in 1..Len(options') :
              options'[i].paid_at # None
              => CompletedEventFor(webhooks', options'[i].lead_registration)
       /\ webhooks' = webhooks
          => \A i \in 1..Len(options') :
                 options'[i].paid_at
                     = IF i <= Len(options) THEN options[i].paid_at
                       ELSE None]_vars

\* C26: once both webhook requests for two leads of one e-mail address
\* have been answered, however their statements interleaved, one user has
\* that e-mail, both responses are 200, and every option of both leads has
\* paid_at set.
C26_ConcurrentWebhooks ==
    (inflight # <<>> /\ \A w \in Workers : inflight[w].pc = "done")
    => /\ Cardinality(UsersByEmail(users, "a@x.com")) = 1
       /\ \A w \in Workers : inflight[w].status = HTTP_200_OK
       /\ \A i \in 1..Len(options) : options[i].paid_at # None

\* C26 witness: both requests are answered, and both had found no user
\* when they looked, so that one INSERT met the row of the other.
C26_Witness ==
    /\ inflight # <<>>
    /\ \A w \in Workers :
           inflight[w].pc = "done" /\ inflight[w].selected = "none"
    /\ \E w \in Workers : ~inflight[w].created

=============================================================================
